---- MODULE Spec2Model ----
(***************************************************************************)
(* Model of internal/prometheus/storage.go: IOWriterGroupedRulesYAMLRepo,  *)
(* its StoreSLOs method, the two renderers rawPrometheusYAML and           *)
(* rawChronosphereYAML, and writeTopDisclaimer.                            *)
(*                                                                         *)
(* A Go string is a TLA+ string.  A []byte buffer is the sequence of its   *)
(* newline-terminated lines, each line a string that ends in "\n"; every   *)
(* buffer the code builds is made of whole lines.  An error is its         *)
(* message, nil is Nil.                                                    *)
(***************************************************************************)
EXTENDS Integers, Sequences, FiniteSets, TLC

VARIABLES slos, last

vars == <<slos, last>>

-----------------------------------------------------------------------------
(* Bounds of the model. *)

MaxSLOs == 2      \* longest []StorageSLO handed to StoreSLOs
MaxRules == 1     \* longest SLI error rule sequence of one StorageSLO

-----------------------------------------------------------------------------
(* Constants of the program. *)

PrometheusFlavor == 0
ChronosphereFlavor == 1
IntervalSecs == 300

Nil == "<nil>"
ErrNoSLORules == "0 SLO Prometheus rules generated"
ErrSLORulesRequired == "slo rules required"
ErrUnsupportedFlavor == "unsupported flavor"
ErrFormatRules == "could not format rules: "
ErrFormatCollections == "could not format collections: "
ErrWriteDisclaimer == "could not write top disclaimer: "
ErrMarshal == "yaml: marshal failed"
ErrSink == "sink: write failed"

Version == "dev"

DocSeparator == "---\n"

disclaimer ==
    << "\n",
       "---\n",
       "# Code generated by Sloth (" \o Version \o "): https://github.com/slok/sloth.\n",
       "# DO NOT EDIT.\n",
       "\n" >>

-----------------------------------------------------------------------------
(* Inputs: the values StoreSLOs is called with. *)

SeqsUpTo(S, n) == UNION {[1..k -> S] : k \in 0..n}

(* The keys of the label and annotation maps of the inputs, in the sorted  *)
(* order in which the encoder emits the keys of a map.                     *)
MapKeys == <<"sloth_id", "sloth_service", "summary">>

SLIErrorRules ==
    { [Record |-> "slo:sli_error:ratio_rate5m", Alert |-> "",
       Expr |-> "sli_error_5m", For |-> "",
       Labels |-> [k \in {"sloth_id"} |-> "x"],
       Annotations |-> [k \in {} |-> ""]] }

MetadataRules ==
    { [Record |-> "slo:objective:ratio", Alert |-> "",
       Expr |-> "vector(0.999)", For |-> "",
       Labels |-> [k \in {} |-> ""],
       Annotations |-> [k \in {} |-> ""]] }

AlertRules ==
    { [Record |-> "", Alert |-> "SLOHighErrorRate",
       Expr |-> "burn_rate > 14", For |-> "5m",
       Labels |-> [k \in {"sloth_service"} |-> "y"],
       Annotations |-> [k \in {"summary"} |-> "budget burn"]] }

SLOs ==
    { [ID |-> "slo1", Service |-> "checkout"],
      [ID |-> "slo2", Service |-> "checkout"],
      [ID |-> "slo3", Service |-> "cart"] }

(* The metadata and the alert sequences hold no rule or one rule. *)
SLORules ==
    [ SLIErrorRecRules : SeqsUpTo(SLIErrorRules, MaxRules),
      MetadataRecRules : {<<>>} \cup {<<r>> : r \in MetadataRules},
      AlertRules : {<<>>} \cup {<<r>> : r \in AlertRules} ]

StorageSLO == [SLO : SLOs, Rules : SLORules]

OutputFlavor == {PrometheusFlavor, ChronosphereFlavor, 2}

-----------------------------------------------------------------------------
(* Helpers of the Go runtime and libraries the code calls. *)

RECURSIVE Flatten(_)
Flatten(ss) == IF ss = <<>> THEN <<>> ELSE Head(ss) \o Flatten(Tail(ss))

(* strings.Replace(s, old, new, -1) for an old of one character: every     *)
(* occurrence of old, from left to right, gives way to new.                *)
Replace(s, old, new) ==
    LET at == {i \in 1..Len(s) : SubSeq(s, i, i) = old}
        RECURSIVE From(_)
        From(i) ==
            IF \A p \in at : p < i
            THEN SubSeq(s, i, Len(s))
            ELSE LET p == CHOOSE p \in at : p >= i /\ \A q \in at : q >= i => p <= q
                 IN  SubSeq(s, i, p - 1) \o new \o From(p + 1)
    IN  From(1)

Indent(pad, lines) == [i \in 1..Len(lines) |-> pad \o lines[i]]

MarshalMap(m) ==
    Flatten([i \in 1..Len(MapKeys) |->
        IF MapKeys[i] \in DOMAIN m
        THEN <<MapKeys[i] \o ": " \o m[MapKeys[i]] \o "\n">>
        ELSE <<>>])

ListItem(lines) ==
    [i \in 1..Len(lines) |-> (IF i = 1 THEN "- " ELSE "  ") \o lines[i]]

(* yaml.Marshal of a rulefmt.Rule: every field but expr is omitempty. *)
MarshalRule(rule) ==
    (IF rule.Record = "" THEN <<>> ELSE <<"record: " \o rule.Record \o "\n">>)
    \o (IF rule.Alert = "" THEN <<>> ELSE <<"alert: " \o rule.Alert \o "\n">>)
    \o <<"expr: " \o rule.Expr \o "\n">>
    \o (IF rule.For = "" THEN <<>> ELSE <<"for: " \o rule.For \o "\n">>)
    \o (IF DOMAIN rule.Labels = {} THEN <<>>
        ELSE <<"labels:\n">> \o Indent("  ", MarshalMap(rule.Labels)))
    \o (IF DOMAIN rule.Annotations = {} THEN <<>>
        ELSE <<"annotations:\n">> \o Indent("  ", MarshalMap(rule.Annotations)))

(* yaml.Marshal of a ruleGroupYAMLv2: interval is omitempty and never set. *)
MarshalRuleGroup(group) ==
    <<"name: " \o group.Name \o "\n", "rules:\n">>
    \o Flatten([i \in 1..Len(group.Rules) |-> ListItem(MarshalRule(group.Rules[i]))])

(* yaml.Marshal of a ruleGroupsYAMLv2. *)
MarshalRuleGroups(ruleGroups) ==
    <<"groups:\n">>
    \o Flatten([i \in 1..Len(ruleGroups.Groups) |->
                   ListItem(MarshalRuleGroup(ruleGroups.Groups[i]))])

NewChronosphereCollectionYAML == [Api_version |-> "v1/config", Kind |-> "Collection"]

NewChronosphereRuleYAML == [Api_version |-> "v1/config", Kind |-> "RecordingRule"]

(* yaml.Marshal of a chronosphereCollectionYAML; team_slug and             *)
(* notification_policy_slug are omitempty and never set.                   *)
MarshalCollection(collection) ==
    << "api_version: " \o NewChronosphereCollectionYAML.Api_version \o "\n",
       "kind: " \o NewChronosphereCollectionYAML.Kind \o "\n",
       "spec:\n" >>
    \o Indent("  ", << "slug: " \o collection.Slug \o "\n",
                       "name: " \o collection.Name \o "\n",
                       "description: " \o collection.Description \o "\n" >>)

(* yaml.Marshal of a chronosphereRuleYAML. *)
MarshalChronosphereRule(rule) ==
    << "api_version: " \o NewChronosphereRuleYAML.Api_version \o "\n",
       "kind: " \o NewChronosphereRuleYAML.Kind \o "\n",
       "spec:\n" >>
    \o Indent("  ", << "slug: " \o rule.Slug \o "\n",
                       "name: " \o rule.Name \o "\n",
                       "bucket_slug: " \o rule.Collection \o "\n",
                       "interval_secs: " \o ToString(rule.Interval_secs) \o "\n",
                       "metric_name: " \o rule.Metric_name \o "\n",
                       "prometheus_expr: " \o rule.Expr \o "\n",
                       "label_policy:\n" >>
                    \o (IF DOMAIN rule.Label_policy.Add = {}
                        THEN <<"  add: {}\n">>
                        ELSE <<"  add:\n">>
                             \o Indent("    ", MarshalMap(rule.Label_policy.Add))))

(* The kinds of value the encoder may reject when rendering flavor f;      *)
(* "none" is an encoder that never fails.                                  *)
MarshalFailures(f) ==
    IF f = PrometheusFlavor THEN {"none", "groups"}
    ELSE IF f = ChronosphereFlavor THEN {"none", "Collection", "RecordingRule"}
    ELSE {"none"}

-----------------------------------------------------------------------------
(* rawPrometheusYAML *)

(* Variant: the alerts group is emitted before the metadata group. *)
GroupsOfSLOAlertsFirst(slo) ==
    (IF Len(slo.Rules.SLIErrorRecRules) > 0
     THEN <<[Name |-> "sloth-slo-sli-recordings-" \o slo.SLO.ID,
             Rules |-> slo.Rules.SLIErrorRecRules]>>
     ELSE <<>>)
    \o (IF Len(slo.Rules.AlertRules) > 0
        THEN <<[Name |-> "sloth-slo-alerts-" \o slo.SLO.ID,
                Rules |-> slo.Rules.AlertRules]>>
        ELSE <<>>)
    \o (IF Len(slo.Rules.MetadataRecRules) > 0
        THEN <<[Name |-> "sloth-slo-meta-recordings-" \o slo.SLO.ID,
                Rules |-> slo.Rules.MetadataRecRules]>>
        ELSE <<>>)

GroupsOfSLO(slo) ==
    (IF Len(slo.Rules.SLIErrorRecRules) > 0
     THEN <<[Name |-> "sloth-slo-sli-recordings-" \o slo.SLO.ID,
             Rules |-> slo.Rules.SLIErrorRecRules]>>
     ELSE <<>>)
    \o (IF Len(slo.Rules.MetadataRecRules) > 0
        THEN <<[Name |-> "sloth-slo-meta-recordings-" \o slo.SLO.ID,
                Rules |-> slo.Rules.MetadataRecRules]>>
        ELSE <<>>)
    \o (IF Len(slo.Rules.AlertRules) > 0
        THEN <<[Name |-> "sloth-slo-alerts-" \o slo.SLO.ID,
                Rules |-> slo.Rules.AlertRules]>>
        ELSE <<>>)

ruleGroupsYAMLv2(s) == [Groups |-> Flatten([i \in 1..Len(s) |-> GroupsOfSLO(s[i])])]

rawPrometheusYAML(s, encFail) ==
    LET ruleGroups == ruleGroupsYAMLv2(s)
    IN  IF Len(ruleGroups.Groups) = 0
        THEN [n |-> 0, yaml |-> <<>>, err |-> ErrNoSLORules]
        ELSE IF encFail = "groups"
        THEN [n |-> 0, yaml |-> <<>>, err |-> ErrFormatRules \o ErrMarshal]
        ELSE [n |-> Len(ruleGroups.Groups),
              yaml |-> MarshalRuleGroups(ruleGroups),
              err |-> Nil]

-----------------------------------------------------------------------------
(* rawChronosphereYAML *)

(* Variant: the collection is keyed by the objective's ID. *)
CollectionOfSLOByID(slo) ==
    [ Slug |-> "sloth-slo-" \o slo.SLO.ID,
      Name |-> "sloth-slo-" \o slo.SLO.ID,
      Description |-> "SLOs generated by Sloth" ]

CollectionOfSLO(slo) ==
    [ Slug |-> "sloth-slo-" \o slo.SLO.Service,
      Name |-> "sloth-slo-" \o slo.SLO.Service,
      Description |-> "SLOs generated by Sloth" ]

RuleId(slo, rule) ==
    "sloth-slo-sli-recordings-" \o slo.SLO.ID \o "-" \o Replace(rule.Record, ":", "_")

(* Variant: the metric name is the record name with its colons replaced. *)
ChronosphereRuleOfSlugMetric(slo, rule) ==
    [ Slug |-> RuleId(slo, rule),
      Name |-> RuleId(slo, rule),
      Collection |-> CollectionOfSLO(slo).Slug,
      Interval_secs |-> IntervalSecs,
      Metric_name |-> Replace(rule.Record, ":", "_"),
      Expr |-> rule.Expr,
      Label_policy |-> [Add |-> rule.Labels] ]

ChronosphereRuleOf(slo, rule) ==
    [ Slug |-> RuleId(slo, rule),
      Name |-> RuleId(slo, rule),
      Collection |-> CollectionOfSLO(slo).Slug,
      Interval_secs |-> IntervalSecs,
      Metric_name |-> rule.Record,
      Expr |-> rule.Expr,
      Label_policy |-> [Add |-> rule.Labels] ]

(* Variant: the alert rules are translated too. *)
RulesOfSLOWithAlerts(slo) ==
    [i \in 1..Len(slo.Rules.SLIErrorRecRules) |->
        ChronosphereRuleOf(slo, slo.Rules.SLIErrorRecRules[i])]
    \o [i \in 1..Len(slo.Rules.MetadataRecRules) |->
        ChronosphereRuleOf(slo, slo.Rules.MetadataRecRules[i])]
    \o [i \in 1..Len(slo.Rules.AlertRules) |->
        ChronosphereRuleOf(slo, slo.Rules.AlertRules[i])]

RulesOfSLO(slo) ==
    [i \in 1..Len(slo.Rules.SLIErrorRecRules) |->
        ChronosphereRuleOf(slo, slo.Rules.SLIErrorRecRules[i])]
    \o [i \in 1..Len(slo.Rules.MetadataRecRules) |->
        ChronosphereRuleOf(slo, slo.Rules.MetadataRecRules[i])]

chronosphereRules(s) == Flatten([i \in 1..Len(s) |-> RulesOfSLO(s[i])])

(* The map collections after the loop over slos: one entry per slug, the   *)
(* value of the last StorageSLO with that slug.                            *)
RECURSIVE chronosphereCollections(_)
chronosphereCollections(s) ==
    IF s = <<>> THEN [k \in {} |-> CollectionOfSLO(CHOOSE x \in StorageSLO : TRUE)]
    ELSE LET before == chronosphereCollections(SubSeq(s, 1, Len(s) - 1))
             collection == CollectionOfSLO(s[Len(s)])
         IN  [k \in DOMAIN before \cup {collection.Slug} |->
                 IF k = collection.Slug THEN collection ELSE before[k]]

(* The orders in which a range over the map may visit its keys: the Go     *)
(* runtime leaves the iteration order of a map unspecified.                *)
MapRangeOrders(m) ==
    {o \in [1..Cardinality(DOMAIN m) -> DOMAIN m] :
        \A i, j \in DOMAIN o : o[i] = o[j] => i = j}

rawChronosphereYAML(s, order, encFail) ==
    LET collections == chronosphereCollections(s)
        rules == chronosphereRules(s)
    IN  IF Cardinality(DOMAIN collections) = 0
        THEN [n |-> 0, yaml |-> <<>>, err |-> ErrNoSLORules]
        ELSE IF encFail = "Collection"
        THEN [n |-> 0, yaml |-> <<>>, err |-> ErrFormatCollections \o ErrMarshal]
        ELSE IF encFail = "RecordingRule" /\ Len(rules) > 0
        THEN [n |-> 0, yaml |-> <<>>, err |-> ErrFormatRules \o ErrMarshal]
        ELSE [n |-> Cardinality(DOMAIN collections),
              yaml |-> Flatten([i \in 1..Len(order) |->
                           MarshalCollection(collections[order[i]]) \o <<DocSeparator>>])
                       \o Flatten([i \in 1..Len(rules) |->
                           MarshalChronosphereRule(rules[i]) \o <<DocSeparator>>]),
              err |-> Nil]

-----------------------------------------------------------------------------
(* writeTopDisclaimer and StoreSLOs *)

(* Variant: the disclaimer is appended instead of prepended. *)
writeBottomDisclaimer(bs) == bs \o disclaimer

writeTopDisclaimer(bs) == disclaimer \o bs

(* What one invocation of StoreSLOs leaves behind: the error it returned,  *)
(* the renderers it called with what each returned, the buffers it passed  *)
(* to writer.Write and the entries it logged.                              *)
Return(err, rendered, writes, logs) ==
    [ret |-> err, rendered |-> rendered, writes |-> writes, logs |-> logs]

Call(f, result) == [flavor |-> f] @@ result

(* Variant: a flavor outside the enumeration falls through to the          *)
(* Prometheus renderer.                                                    *)
DispatchDefaultPrometheus(s, f, order, encFail) ==
    IF f = ChronosphereFlavor
    THEN <<[fn |-> "rawChronosphereYAML"] @@ rawChronosphereYAML(s, order, encFail)>>
    ELSE <<[fn |-> "rawPrometheusYAML"] @@ rawPrometheusYAML(s, encFail)>>

(* The flavor dispatch: the renderer called, with its return values; no    *)
(* renderer for a flavor outside the enumeration.                          *)
Dispatch(s, f, order, encFail) ==
    IF f = PrometheusFlavor
    THEN <<[fn |-> "rawPrometheusYAML"] @@ rawPrometheusYAML(s, encFail)>>
    ELSE IF f = ChronosphereFlavor
    THEN <<[fn |-> "rawChronosphereYAML"] @@ rawChronosphereYAML(s, order, encFail)>>
    ELSE <<>>

(* The tail of StoreSLOs, after a renderer returned without error. *)
WriteAndLog(rendered, sinkFail) ==
    LET rulesYaml == writeTopDisclaimer(rendered[1].yaml)
    IN  IF sinkFail
        THEN Return(ErrWriteDisclaimer \o ErrSink, rendered, <<rulesYaml>>, <<>>)
        ELSE Return(Nil, rendered, <<rulesYaml>>,
                    <<[msg |-> "Prometheus rules written", groups |-> rendered[1].n]>>)

(* Variant: the buffer is written before the renderer's error is looked at. *)
InvocationWriteBeforeErrCheck(s, f, order, encFail, sinkFail) ==
    IF Len(s) = 0
    THEN Return(ErrSLORulesRequired, <<>>, <<>>, <<>>)
    ELSE LET rendered == Dispatch(s, f, order, encFail)
         IN  IF rendered = <<>>
             THEN Return(ErrUnsupportedFlavor, <<>>, <<>>, <<>>)
             ELSE IF rendered[1].err # Nil
             THEN Return(rendered[1].err, rendered,
                         <<writeTopDisclaimer(rendered[1].yaml)>>, <<>>)
             ELSE WriteAndLog(rendered, sinkFail)

(* Variant: the length of the input is not checked. *)
InvocationNoLenCheck(s, f, order, encFail, sinkFail) ==
    LET rendered == Dispatch(s, f, order, encFail)
    IN  IF rendered = <<>>
        THEN Return(ErrUnsupportedFlavor, <<>>, <<>>, <<>>)
        ELSE IF rendered[1].err # Nil
        THEN Return(rendered[1].err, rendered, <<>>, <<>>)
        ELSE WriteAndLog(rendered, sinkFail)

(* One invocation of StoreSLOs.  order is the map iteration order of this  *)
(* invocation, encFail the kind of value yaml.Marshal rejects, sinkFail    *)
(* whether writer.Write returns an error.                                  *)
Invocation(s, f, order, encFail, sinkFail) ==
    IF Len(s) = 0
    THEN Return(ErrSLORulesRequired, <<>>, <<>>, <<>>)
    ELSE LET rendered == Dispatch(s, f, order, encFail)
         IN  IF rendered = <<>>
             THEN Return(ErrUnsupportedFlavor, <<>>, <<>>, <<>>)
             ELSE IF rendered[1].err # Nil
             THEN Return(rendered[1].err, rendered, <<>>, <<>>)
             ELSE WriteAndLog(rendered, sinkFail)

-----------------------------------------------------------------------------
(* The state machine: a caller holds one slice of StorageSLO and invokes   *)
(* StoreSLOs on it with a flavor.  last holds the most recent invocation,  *)
(* or nothing before the first one.  Under Spec the caller invokes         *)
(* StoreSLOs once; under SpecRerun it invokes it again and again on the    *)
(* same slice.                                                             *)

Init ==
    /\ slos \in SeqsUpTo(StorageSLO, MaxSLOs)
    /\ last = <<>>

(* The map is ranged over only by rawChronosphereYAML. *)
RangeOrders(s, f) ==
    IF f = ChronosphereFlavor THEN MapRangeOrders(chronosphereCollections(s)) ELSE {<<>>}

SinkOutcomes(f) ==
    IF f \in {PrometheusFlavor, ChronosphereFlavor} THEN BOOLEAN ELSE {FALSE}

StoreSLOs(f) ==
    /\ \E order \in RangeOrders(slos, f),
          encFail \in MarshalFailures(f),
          sinkFail \in SinkOutcomes(f) :
            last' = <<Call(f, Invocation(slos, f, order, encFail, sinkFail))>>
    /\ UNCHANGED slos

Next == \E f \in OutputFlavor : last = <<>> /\ StoreSLOs(f)

Spec == Init /\ [][Next]_vars

NextRerun == \E f \in OutputFlavor : StoreSLOs(f)

SpecRerun == Init /\ [][NextRerun]_vars

TypeOK ==
    /\ Len(slos) <= MaxSLOs
    /\ Len(last) <= 1
    /\ \A i \in DOMAIN last : last[i].flavor \in OutputFlavor

-----------------------------------------------------------------------------
(* Reading a written buffer back: prefixes, documents, fields. *)

HasPrefix(l, p) == Len(l) >= Len(p) /\ SubSeq(l, 1, Len(p)) = p

LinesWithPrefix(lines, p) == SelectSeq(lines, LAMBDA l : HasPrefix(l, p))

SeparatorPositions(y) == {i \in 1..Len(y) : y[i] = DocSeparator}

SeparatorAt(y, k) ==
    CHOOSE p \in SeparatorPositions(y) :
        Cardinality({q \in SeparatorPositions(y) : q <= p}) = k

(* The documents of a buffer in which every document is followed by a      *)
(* separator line.                                                         *)
Documents(y) ==
    [k \in 1..Cardinality(SeparatorPositions(y)) |->
        SubSeq(y, (IF k = 1 THEN 1 ELSE SeparatorAt(y, k - 1) + 1), SeparatorAt(y, k) - 1)]

IsCollectionDoc(d) == Len(d) >= 2 /\ d[2] = "kind: Collection\n"

IsRuleDoc(d) == Len(d) >= 2 /\ d[2] = "kind: RecordingRule\n"

Services(s) == {s[i].SLO.Service : i \in 1..Len(s)}

AllRulesEmpty(s) ==
    \A i \in 1..Len(s) :
        /\ s[i].Rules.SLIErrorRecRules = <<>>
        /\ s[i].Rules.MetadataRecRules = <<>>
        /\ s[i].Rules.AlertRules = <<>>

OnlyAlertRules(s) ==
    \A i \in 1..Len(s) :
        /\ s[i].Rules.SLIErrorRecRules = <<>>
        /\ s[i].Rules.MetadataRecRules = <<>>
        /\ s[i].Rules.AlertRules # <<>>

RenderSucceeded(c) == Len(c.rendered) = 1 /\ c.rendered[1].err = Nil

PreWriteErrors ==
    { ErrSLORulesRequired, ErrUnsupportedFlavor, ErrNoSLORules,
      ErrFormatRules \o ErrMarshal, ErrFormatCollections \o ErrMarshal }

-----------------------------------------------------------------------------
(* C1: in every invocation of StoreSLOs Write is called at most once; it   *)
(* is called only when the input is non-empty and the single renderer      *)
(* called returned no error; an invocation that returns an                 *)
(* input-validation, unsupported-flavor, no-rules or encoding error has    *)
(* called Write zero times; when rendering succeeded Write was called      *)
(* exactly once, with the whole buffer (disclaimer and payload).           *)
C1_WriteAtMostOnceAfterRender ==
    \A i \in DOMAIN last :
        LET c == last[i]
        IN  /\ Len(c.writes) <= 1
            /\ Len(c.writes) = 1 => Len(slos) > 0 /\ RenderSucceeded(c)
            /\ c.ret \in PreWriteErrors => Len(c.writes) = 0
            /\ RenderSucceeded(c) =>
                  /\ Len(c.writes) = 1
                  /\ Len(c.writes[1]) = Len(disclaimer) + Len(c.rendered[1].yaml)

C1_Witness ==
    /\ Len(last) = 1
    /\ last[1].ret = ErrWriteDisclaimer \o ErrSink
    /\ Len(last[1].writes) = 1
    /\ Len(last[1].writes[1]) > Len(disclaimer)

(* C2: when every StorageSLO of a non-empty input has its three rule       *)
(* sequences empty, StoreSLOs returns ErrNoSLORules for both flavors and   *)
(* Write is never called.                                                  *)
C2_NoRulesSentinel ==
    (Len(slos) > 0 /\ AllRulesEmpty(slos)) =>
        \A i \in DOMAIN last :
            last[i].flavor \in {PrometheusFlavor, ChronosphereFlavor} =>
                last[i].ret = ErrNoSLORules /\ last[i].writes = <<>>

(* C5: for a non-empty input and a flavor outside the enumeration,         *)
(* StoreSLOs returns the unsupported-flavor error, last no renderer and   *)
(* does not call Write.                                                    *)
C5_UnsupportedFlavor ==
    Len(slos) > 0 =>
        \A i \in DOMAIN last :
            last[i].flavor \notin {PrometheusFlavor, ChronosphereFlavor} =>
                /\ last[i].ret = ErrUnsupportedFlavor
                /\ last[i].rendered = <<>>
                /\ last[i].writes = <<>>

C5_Witness ==
    /\ Len(slos) > 0 /\ ~AllRulesEmpty(slos)
    /\ Len(last) >= 1
    /\ last[1].flavor \notin {PrometheusFlavor, ChronosphereFlavor}
    /\ last[1].ret = ErrUnsupportedFlavor

(* C6: for an empty input StoreSLOs returns the input-validation error     *)
(* whatever the flavor, last no renderer, does not call Write and logs    *)
(* nothing; the error is not the no-rules sentinel.                        *)
C6_EmptyInput ==
    Len(slos) = 0 =>
        \A i \in DOMAIN last :
            /\ last[i].ret = ErrSLORulesRequired
            /\ last[i].ret # ErrNoSLORules
            /\ last[i].rendered = <<>>
            /\ last[i].writes = <<>>
            /\ last[i].logs = <<>>

C6_Witness ==
    /\ Len(slos) = 0
    /\ Len(last) = 1
    /\ last[1].flavor \notin {PrometheusFlavor, ChronosphereFlavor}
    /\ last[1].ret = ErrSLORulesRequired

(* C8: on every successful call the bytes passed to Write are the banner   *)
(* text, then a document separator, then the payload unchanged.            *)
BannerText ==
    << "# Code generated by Sloth (" \o Version \o "): https://github.com/slok/sloth.\n",
       "# DO NOT EDIT.\n" >>

C8_BannerThenSeparator ==
    \A i \in DOMAIN last :
        last[i].ret = Nil =>
            last[i].writes[1] = BannerText \o <<DocSeparator>> \o last[i].rendered[1].yaml

(* C8 as amended: on every successful call the bytes passed to Write are   *)
(* an empty line, a document separator, the banner text, an empty line,    *)
(* and then the payload unchanged.                                         *)
C8_DisclaimerThenPayload ==
    \A i \in DOMAIN last :
        last[i].ret = Nil =>
            last[i].writes[1] =
                <<"\n", DocSeparator>> \o BannerText \o <<"\n">> \o last[i].rendered[1].yaml

C8_Witness ==
    /\ Len(last) = 1
    /\ last[1].ret = Nil /\ last[1].flavor = ChronosphereFlavor
    /\ Len(last[1].rendered[1].yaml) > 0
    /\ Len(last[1].writes[1]) = Len(disclaimer) + Len(last[1].rendered[1].yaml)

(* C9: two runs of the Chronosphere renderer on the same input give the    *)
(* same output: when a successful Chronosphere render follows a successful *)
(* Chronosphere render of the same slos, the two payloads are equal.       *)
C9_ByteStable ==
    [][ ( /\ Len(last) = 1 /\ Len(last') = 1
          /\ slos' = slos
          /\ last[1].flavor = ChronosphereFlavor /\ RenderSucceeded(last[1])
          /\ last'[1].flavor = ChronosphereFlavor /\ RenderSucceeded(last'[1]) )
        => last'[1].rendered[1].yaml = last[1].rendered[1].yaml ]_vars

-----------------------------------------------------------------------------
(* The (StorageSLO, kind) slots of an input in emission order: kind 1 is   *)
(* the SLI error recordings, 2 the metadata recordings, 3 the alerts.      *)

KindRules(slo, k) ==
    CASE k = 1 -> slo.Rules.SLIErrorRecRules
      [] k = 2 -> slo.Rules.MetadataRecRules
      [] k = 3 -> slo.Rules.AlertRules

KindGroupName(slo, k) ==
    CASE k = 1 -> "sloth-slo-sli-recordings-" \o slo.SLO.ID
      [] k = 2 -> "sloth-slo-meta-recordings-" \o slo.SLO.ID
      [] k = 3 -> "sloth-slo-alerts-" \o slo.SLO.ID

Slots(s, kinds) ==
    [j \in 1..(kinds * Len(s)) |-> <<((j - 1) \div kinds) + 1, ((j - 1) % kinds) + 1>>]

NonEmptySlots(s) ==
    SelectSeq(Slots(s, 3), LAMBDA p : KindRules(s[p[1]], p[2]) # <<>>)

(* C3: for the Prometheus flavor and a non-empty input, a successful       *)
(* render emits, after the "groups:" key, exactly one group per non-empty  *)
(* (StorageSLO, kind) slot, in input order and within a StorageSLO in the  *)
(* order SLI recordings, metadata recordings, alerts, named                *)
(* sloth-slo-<kind>-<ID> and carrying the slot's rules unchanged; the      *)
(* returned count is the number of such slots, and the render fails with   *)
(* ErrNoSLORules exactly when there is none.                               *)
C3_PrometheusGroups ==
    Len(slos) > 0 =>
        \A i \in DOMAIN last :
            last[i].flavor = PrometheusFlavor =>
                LET r == last[i].rendered[1]
                    slots == NonEmptySlots(slos)
                IN  /\ (r.err = ErrNoSLORules) <=> (Len(slots) = 0)
                    /\ r.err = Nil =>
                        /\ r.n = Len(slots)
                        /\ LinesWithPrefix(r.yaml, "- name: ") =
                              [j \in 1..Len(slots) |->
                                  "- name: " \o KindGroupName(slos[slots[j][1]], slots[j][2]) \o "\n"]
                        /\ r.yaml = <<"groups:\n">> \o
                              Flatten([j \in 1..Len(slots) |->
                                  <<"- name: " \o KindGroupName(slos[slots[j][1]], slots[j][2]) \o "\n",
                                    "  rules:\n">>
                                  \o Indent("  ", Flatten(
                                        [q \in 1..Len(KindRules(slos[slots[j][1]], slots[j][2])) |->
                                            ListItem(MarshalRule(
                                                KindRules(slos[slots[j][1]], slots[j][2])[q]))]))])

C3_Witness ==
    /\ Len(slos) = 2
    /\ Len(NonEmptySlots(slos)) >= 4
    /\ slos[1].Rules.MetadataRecRules = <<>> /\ slos[1].Rules.AlertRules # <<>>
    /\ Len(last) >= 1
    /\ last[1].flavor = PrometheusFlavor /\ last[1].ret = Nil

(* C4: for the Chronosphere flavor a successful render holds exactly one   *)
(* Collection document per distinct service name of the input, with slug   *)
(* sloth-slo-<service>, and returns the number of distinct service names.  *)
C4_OneCollectionPerService ==
    \A i \in DOMAIN last :
        (last[i].flavor = ChronosphereFlavor /\ RenderSucceeded(last[i])) =>
            LET r == last[i].rendered[1]
                collectionDocs == SelectSeq(Documents(r.yaml), IsCollectionDoc)
            IN  /\ Len(collectionDocs) = Cardinality(Services(slos))
                /\ Len(LinesWithPrefix(r.yaml, "kind: Collection")) = Cardinality(Services(slos))
                /\ \A svc \in Services(slos) :
                      Cardinality({k \in 1..Len(collectionDocs) :
                          collectionDocs[k][4] = "  slug: sloth-slo-" \o svc \o "\n"}) = 1
                /\ r.n = Cardinality(Services(slos))

C4_Witness ==
    /\ Len(slos) = 2
    /\ slos[1].SLO.Service = slos[2].SLO.Service
    /\ slos[1].SLO.ID # slos[2].SLO.ID
    /\ Len(last) >= 1
    /\ last[1].flavor = ChronosphereFlavor /\ last[1].ret = Nil
    /\ last[1].rendered[1].n = 1

(* C7: for a non-empty input whose StorageSLOs carry only alert rules, a   *)
(* successful Chronosphere render holds no RecordingRule document, while   *)
(* the Prometheus render of the same input never reports ErrNoSLORules     *)
(* and, when it succeeds, holds a non-zero number of groups.               *)
C7_AlertsOnly ==
    (Len(slos) > 0 /\ OnlyAlertRules(slos)) =>
        \A i \in DOMAIN last :
            /\ (last[i].flavor = ChronosphereFlavor /\ RenderSucceeded(last[i])) =>
                  /\ SelectSeq(Documents(last[i].rendered[1].yaml), IsRuleDoc) = <<>>
                  /\ LinesWithPrefix(last[i].rendered[1].yaml, "kind: RecordingRule") = <<>>
            /\ last[i].flavor = PrometheusFlavor =>
                  /\ last[i].ret # ErrNoSLORules
                  /\ RenderSucceeded(last[i]) =>
                        /\ last[i].rendered[1].n > 0
                        /\ Len(LinesWithPrefix(last[i].rendered[1].yaml, "- name: ")) > 0

C7_Witness ==
    /\ Len(slos) = 2 /\ OnlyAlertRules(slos)
    /\ Len(last) = 1
    /\ last[1].flavor = ChronosphereFlavor /\ last[1].ret = Nil
    /\ Len(last[1].rendered[1].yaml) > 0

(* The recording rules of an input in emission order: for each StorageSLO  *)
(* in input order, its SLI error rules and then its metadata rules.        *)
RecordingRuleRefs(s) ==
    LET slots == Slots(s, 2)
        count(j) == Len(KindRules(s[slots[j][1]], slots[j][2]))
    IN  Flatten([j \in 1..Len(slots) |-> [q \in 1..count(j) |-> <<slots[j][1], slots[j][2], q>>]])

(* C10: a successful Chronosphere render is a sequence of documents, each  *)
(* followed by a separator: first the Collection documents, then one       *)
(* RecordingRule document per SLI error rule and per metadata rule (none   *)
(* per alert rule), in input order of StorageSLOs and within one with the  *)
(* SLI error rules first; each has interval_secs 300, metric_name the      *)
(* rule's record name, the rule's expression and bucket_slug               *)
(* sloth-slo-<service> of its StorageSLO.                                  *)
C10_ChronosphereDocuments ==
    \A i \in DOMAIN last :
        (last[i].flavor = ChronosphereFlavor /\ RenderSucceeded(last[i])) =>
            LET y == last[i].rendered[1].yaml
                docs == Documents(y)
                refs == RecordingRuleRefs(slos)
                nc == Len(docs) - Len(refs)
            IN  /\ Len(y) > 0 /\ y[Len(y)] = DocSeparator
                /\ nc >= 1
                /\ \A k \in 1..Len(docs) :
                      IF k <= nc THEN IsCollectionDoc(docs[k]) /\ ~IsRuleDoc(docs[k])
                                 ELSE IsRuleDoc(docs[k]) /\ ~IsCollectionDoc(docs[k])
                /\ \A k \in 1..Len(refs) :
                      LET d == docs[nc + k]
                          slo == slos[refs[k][1]]
                          rule == KindRules(slo, refs[k][2])[refs[k][3]]
                      IN  /\ LinesWithPrefix(d, "  bucket_slug: ") =
                                <<"  bucket_slug: sloth-slo-" \o slo.SLO.Service \o "\n">>
                          /\ LinesWithPrefix(d, "  interval_secs: ") = <<"  interval_secs: 300\n">>
                          /\ LinesWithPrefix(d, "  metric_name: ") =
                                <<"  metric_name: " \o rule.Record \o "\n">>
                          /\ LinesWithPrefix(d, "  prometheus_expr: ") =
                                <<"  prometheus_expr: " \o rule.Expr \o "\n">>

C10_Witness ==
    /\ Len(slos) = 2
    /\ slos[1].SLO.Service # slos[2].SLO.Service
    /\ \A k \in 1..2 : /\ slos[k].Rules.SLIErrorRecRules # <<>>
                       /\ slos[k].Rules.MetadataRecRules # <<>>
                       /\ slos[k].Rules.AlertRules # <<>>
    /\ Len(last) >= 1
    /\ last[1].flavor = ChronosphereFlavor /\ last[1].ret = Nil

====
